---- MODULE Spec2Model ----
(***************************************************************************)
(* A model of packages/data-context/src/sources/ProjectDataSource.ts:      *)
(* spec descriptors (matchedSpecs, transformSpec), the longest common      *)
(* prefix of paths, the default spec file name, spec pattern membership    *)
(* and the spec watcher with its debounced discovery pass.                 *)
(*                                                                         *)
(* JavaScript strings are sequences of one-character strings, so that      *)
(* split, join, replace, endsWith and the path functions are computed      *)
(* character by character as the code computes them.                       *)
(***************************************************************************)
EXTENDS Integers, Sequences, FiniteSets, TLC

VARIABLES
  pc,                   \* position of the call under study
  platform,             \* os.platform(): "posix" or "win32"
  paths,                \* argument of getLongestCommonPrefixFromPaths
  lcpResult,            \* its return value
  specAbsolutePaths,    \* argument of matchedSpecs
  testingType,          \* argument of matchedSpecs
  descriptors,          \* return value of matchedSpecs
  currentProject,       \* ctx.currentProject
  currentTestingType,   \* ctx.coreData.currentTestingType
  config,               \* what getConfig() resolves to
  specFile,             \* argument of matchesSpecPattern
  matchResult,          \* return value of matchesSpecPattern
  fileExtensionToUse,   \* ctx.lifecycleManager.fileExtensionToUse
  failing,              \* the step of defaultSpecFileName that throws, if any
  globExample,          \* what getLongestCommonPrefixFromGlob returns
  defaultResult,        \* outcome of defaultSpecFileName
  _specs,               \* ProjectDataSource._specs
  _specWatcher,         \* ProjectDataSource._specWatcher
  watchers,             \* every FSWatcher chokidar.watch has created
  debounced,            \* the lodash debounce state of each watcher's callback
  inflight,             \* findSpecs calls awaiting getFilesByGlob, per watcher
  fsVersion,            \* the state of the project's filesystem
  lastCall,             \* the last call made on the data source, and how it ended
  unhandledRejection,   \* a promise rejected with no handler attached
  lastUpdate            \* the last setSpecs / refreshSpecs call made

vars == <<pc, platform, paths, lcpResult, specAbsolutePaths,
          testingType, descriptors, currentProject, currentTestingType, config,
          specFile, matchResult, fileExtensionToUse, failing, globExample,
          defaultResult, _specs, _specWatcher, watchers, debounced, inflight,
          fsVersion, lastCall, unhandledRejection, lastUpdate>>

\* null, where a string may stand; and where an FSWatcher (a positive number) may
Null == "null"
NoWatcher == 0

(***************************************************************************)
(* String primitives                                                       *)
(***************************************************************************)
Slash == "/"
Backslash == "\\"

\* String.prototype.startsWith
StartsWith(s, p) ==
  /\ Len(p) <= Len(s)
  /\ SubSeq(s, 1, Len(p)) = p

\* String.prototype.endsWith
EndsWith(s, p) ==
  /\ Len(p) <= Len(s)
  /\ SubSeq(s, Len(s) - Len(p) + 1, Len(s)) = p

\* String.prototype.indexOf, 1-based; 0 when p does not occur in s
IndexOf(s, p) ==
  LET hits == {i \in 1..(Len(s) - Len(p) + 1) : SubSeq(s, i, i + Len(p) - 1) = p}
  IN IF Len(p) = 0 THEN 1
     ELSE IF hits = {} THEN 0
     ELSE CHOOSE i \in hits : \A j \in hits : i <= j

\* String.prototype.replace(p, r) with a string pattern: the FIRST occurrence only
ReplaceFirst(s, p, r) ==
  LET i == IndexOf(s, p)
  IN IF i = 0 THEN s
     ELSE SubSeq(s, 1, i - 1) \o r \o SubSeq(s, i + Len(p), Len(s))

\* the positions of s holding a character of seps
SepPositions(s, seps) == {i \in 1..Len(s) : s[i] \in seps}

RECURSIVE SplitFrom(_, _, _)
SplitFrom(s, seps, from) ==
  LET later == {i \in SepPositions(s, seps) : i >= from}
  IN IF later = {} THEN <<SubSeq(s, from, Len(s))>>
     ELSE LET i == CHOOSE k \in later : \A j \in later : k <= j
          IN <<SubSeq(s, from, i - 1)>> \o SplitFrom(s, seps, i + 1)

\* String.prototype.split on any single character of seps
Split(s, seps) == SplitFrom(s, seps, 1)

\* Array.prototype.join
RECURSIVE Join(_, _)
Join(parts, sep) ==
  IF Len(parts) = 0 THEN <<>>
  ELSE IF Len(parts) = 1 THEN parts[1]
  ELSE parts[1] \o <<sep>> \o Join(Tail(parts), sep)

\* path.sep
PathSep(plat) == IF plat = "win32" THEN Backslash ELSE Slash

(***************************************************************************)
(* getLongestCommonPrefixFromPaths                                         *)
(***************************************************************************)
getPathParts(pathname) == Split(pathname, {Slash, Backslash})

\* One step of the inner loop: lcp is the first path's parts, holes the
\* indexes deleted from it (0-based, as in the code), end the current bound.
\* A deleted index and an index past the end both read as undefined.
LcpMismatch(lcp, holes, pathParts, i) ==
  \/ i >= Len(lcp)
  \/ i \in holes
  \/ lcp[i + 1] # pathParts[i + 1]

RECURSIVE LcpInner(_, _, _, _, _)
LcpInner(lcp, holes, end, pathParts, i) ==
  IF i < 0 THEN [holes |-> holes, end |-> end]
  ELSE IF LcpMismatch(lcp, holes, pathParts, i)
       THEN LcpInner(lcp, IF i < Len(lcp) THEN holes \cup {i} ELSE holes, i,
                     pathParts, i - 1)
       ELSE LcpInner(lcp, holes, end, pathParts, i - 1)

RECURSIVE LcpOuter(_, _, _, _)
LcpOuter(lcp, holes, end, rest) ==
  IF Len(rest) = 0 THEN [holes |-> holes, end |-> end]
  ELSE LET pathParts == getPathParts(rest[1])
           r == LcpInner(lcp, holes, end, pathParts, Len(pathParts) - 1)
       IN LcpOuter(lcp, r.holes, r.end, Tail(rest))

\* lcp.slice(0, end) of an array with holes: a hole joins as the empty string
SliceWithHoles(lcp, holes, end) ==
  [k \in 1..(IF end < Len(lcp) THEN end ELSE Len(lcp)) |->
     IF (k - 1) \in holes THEN <<>> ELSE lcp[k]]

getLongestCommonPrefixFromPaths(ps, plat) ==
  IF Len(ps) = 0 \/ ps[1] = <<>> THEN <<>>
  ELSE LET lcp == getPathParts(ps[1])
       IN IF Len(ps) = 1
          THEN Join(SubSeq(lcp, 1, Len(lcp) - 1), PathSep(plat))
          ELSE LET r == LcpOuter(lcp, {}, Len(lcp), Tail(ps))
               IN Join(SliceWithHoles(lcp, r.holes, r.end), PathSep(plat))

(***************************************************************************)
(* Node's path module, in the flavour of the platform. The paths of this   *)
(* model never end in a separator and never repeat one.                    *)
(***************************************************************************)
PathSeps(plat) == IF plat = "win32" THEN {Slash, Backslash} ELSE {Slash}

SetMax(S) == CHOOSE i \in S : \A j \in S : j <= i

\* the length of the root: "/" (posix); "\", "C:" or "C:\" (win32)
RootLen(p, plat) ==
  IF Len(p) >= 1 /\ p[1] \in PathSeps(plat) THEN 1
  ELSE IF plat = "win32" /\ Len(p) >= 2 /\ p[2] = ":"
       THEN (IF Len(p) >= 3 /\ p[3] \in PathSeps(plat) THEN 3 ELSE 2)
       ELSE 0

\* path.dirname
Dirname(p, plat) ==
  LET root == RootLen(p, plat)
      cand == {i \in (root + 1)..Len(p) : p[i] \in PathSeps(plat)}
  IN IF cand = {}
     THEN (IF root = 0 THEN <<".">> ELSE SubSeq(p, 1, root))
     ELSE SubSeq(p, 1, SetMax(cand) - 1)

\* path.parse(p).base
Basename(p, plat) ==
  LET root == RootLen(p, plat)
      cand == {i \in 1..Len(p) : p[i] \in PathSeps(plat)} \cup {root}
  IN SubSeq(p, SetMax(cand) + 1, Len(p))

\* path.extname: from the last dot of the base name, unless that dot is the
\* base name's first character or the base name is ".."
Extname(p, plat) ==
  LET b == Basename(p, plat)
      dots == {i \in 1..Len(b) : b[i] = "."}
  IN IF dots = {} \/ SetMax(dots) = 1 \/ b = <<".", ".">> THEN <<>>
     ELSE SubSeq(b, SetMax(dots), Len(b))

\* util/file toPosix(file, sep): file.split(sep).join('/')
toPosix(file, sep) == Join(Split(file, {sep}), Slash)

\* the common-path-prefix package: the separator is the first one found in
\* the paths; the prefix ends with it; '' for fewer than two paths or when
\* nothing is shared
DetermineSeparator(ps, plat) ==
  LET withSep == {k \in 1..Len(ps) : SepPositions(ps[k], {Slash, Backslash}) # {}}
  IN IF withSep = {} THEN PathSep(plat)
     ELSE LET k == CHOOSE x \in withSep : \A y \in withSep : x <= y
              pos == SepPositions(ps[k], {Slash, Backslash})
              i == CHOOSE x \in pos : \A y \in pos : x <= y
          IN ps[k][i]

RECURSIVE CppEnd(_, _, _, _)
CppEnd(parts, rest, sep, endOfPrefix) ==
  IF Len(rest) = 0 \/ endOfPrefix = 0 THEN endOfPrefix
  ELSE LET compare == Split(rest[1], {sep})
           bad == {i \in 0..(endOfPrefix - 1) :
                     i >= Len(compare) \/ compare[i + 1] # parts[i + 1]}
       IN CppEnd(parts, Tail(rest), sep,
                 IF bad = {} THEN endOfPrefix
                 ELSE CHOOSE i \in bad : \A j \in bad : i <= j)

commonPathPrefix(ps, plat) ==
  IF Len(ps) < 2 \/ ps[1] = <<>> THEN <<>>
  ELSE LET sep == DetermineSeparator(ps, plat)
           parts == Split(ps[1], {sep})
           endOfPrefix == CppEnd(parts, Tail(ps), sep, Len(parts))
           prefix == Join(SubSeq(parts, 1, endOfPrefix), sep)
       IN IF endOfPrefix = 0 THEN <<>>
          ELSE IF EndsWith(prefix, <<sep>>) THEN prefix
          ELSE prefix \o <<sep>>

(***************************************************************************)
(* transformSpec and matchedSpecs                                          *)
(***************************************************************************)
SpecSuffixes ==
  << <<".", "s", "p", "e", "c">>, <<".", "t", "e", "s", "t">>,
     <<"-", "s", "p", "e", "c">>, <<"-", "t", "e", "s", "t">>,
     <<".", "c", "y">> >>

\* ['.spec', ...].map((ext) => ext + fileExtension)
\*               .find((ext) => absolute.endsWith(ext)) || fileExtension
SpecFileExtension(absolute, fileExtension) ==
  LET hits == {k \in 1..Len(SpecSuffixes) :
                 EndsWith(absolute, SpecSuffixes[k] \o fileExtension)}
  IN IF hits = {} THEN fileExtension
     ELSE SpecSuffixes[CHOOSE k \in hits : \A j \in hits : k <= j] \o fileExtension

\* .replace(/^\/|/g, ''): one leading slash goes, the empty matches change nothing
StripLeadingSlash(s) ==
  IF Len(s) >= 1 /\ s[1] = Slash THEN Tail(s) ELSE s

\* base.replace(specFileExtension, '')
FileNameOf(base, specFileExtension) == ReplaceFirst(base, specFileExtension, <<>>)

\* absolute.replace(commonRoot, '').replace(LEADING_SLASH, '')
RelativeToCommonRoot(absolute, commonRoot) ==
  StripLeadingSlash(ReplaceFirst(absolute, commonRoot, <<>>))

transformSpec(absoluteIn, tt, commonRoot, plat, sep) ==
  LET absolute == IF plat = "win32" THEN toPosix(absoluteIn, sep) ELSE absoluteIn
      base == Basename(absolute, plat)
      fileExtension == Extname(absolute, plat)
      specFileExtension == SpecFileExtension(absolute, fileExtension)
  IN [fileExtension |-> fileExtension,
      baseName |-> base,
      fileName |-> FileNameOf(base, specFileExtension),
      specFileExtension |-> specFileExtension,
      relativeToCommonRoot |-> RelativeToCommonRoot(absolute, commonRoot),
      specType |-> IF tt = "component" THEN "component" ELSE "integration",
      absolute |-> absolute]

CommonRootOf(ps, plat) ==
  IF Len(ps) = 1 THEN Dirname(ps[1], plat) ELSE commonPathPrefix(ps, plat)

matchedSpecs(ps, tt, plat) ==
  LET commonRoot == CommonRootOf(ps, plat)
  IN [k \in 1..Len(ps) |-> transformSpec(ps[k], tt, commonRoot, plat, PathSep(plat))]

(***************************************************************************)
(* The parts of the state a specification does not use stay as constructed *)
(***************************************************************************)
IdleLcp == paths = <<>> /\ lcpResult = <<>>

IdleTransform == specAbsolutePaths = <<>> /\ testingType = "e2e" /\ descriptors = <<>>

IdleContext ==
  /\ currentProject = Null
  /\ currentTestingType = Null
  /\ config = [specPattern |-> [kind |-> "undefined"],
               excludeSpecPattern |-> [kind |-> "undefined"]]

IdleMatch == specFile = <<>> /\ matchResult = FALSE

IdleDefault ==
  /\ fileExtensionToUse = "js"
  /\ failing = "none"
  /\ globExample = [kind |-> "undefined"]
  /\ defaultResult = [kind |-> "pending"]

NoUpdate == [kind |-> "none", stale |-> FALSE]

NoCall == [name |-> "constructor", threw |-> FALSE, hadWatcher |-> FALSE,
           closeRequested |-> FALSE, stopsInRow |-> 0]

IdleWatcherButSpecs ==
  /\ _specWatcher = NoWatcher
  /\ watchers = <<>>
  /\ debounced = <<>>
  /\ inflight = <<>>
  /\ fsVersion = 0
  /\ lastCall = NoCall
  /\ unhandledRejection = FALSE
  /\ lastUpdate = NoUpdate

IdleWatcher == _specs = <<>> /\ IdleWatcherButSpecs

lcpVars == <<paths, lcpResult>>
transformVars == <<specAbsolutePaths, testingType, descriptors>>
contextVars == <<currentProject, currentTestingType, config>>
matchVars == <<specFile, matchResult>>
defaultVars == <<fileExtensionToUse, failing, globExample, defaultResult>>
watcherVars == <<_specs, _specWatcher, watchers, debounced, inflight,
                 fsVersion, lastCall, unhandledRejection, lastUpdate>>

Platforms == {"posix", "win32"}

\* every sequence over S of length lo..hi
SeqsBetween(S, lo, hi) == UNION {[1..n -> S] : n \in lo..hi}

RECURSIVE Concat(_)
Concat(ss) == IF Len(ss) = 0 THEN <<>> ELSE ss[1] \o Concat(Tail(ss))

(***************************************************************************)
(* getLongestCommonPrefixFromPaths on lists of relative paths              *)
(***************************************************************************)
MaxSegments == 3
MaxPaths == 3

LcpSegments == {<<"a">>, <<"b">>}
LcpPaths == {Join(segs, Slash) : segs \in SeqsBetween(LcpSegments, 1, MaxSegments)}

InitLcp ==
  /\ pc = "start"
  /\ platform \in Platforms
  /\ paths \in SeqsBetween(LcpPaths, 0, MaxPaths)
  /\ lcpResult = <<>>
  /\ IdleTransform /\ IdleContext /\ IdleMatch /\ IdleDefault /\ IdleWatcher

CallLcp ==
  /\ pc = "start"
  /\ lcpResult' = getLongestCommonPrefixFromPaths(paths, platform)
  /\ pc' = "done"
  /\ UNCHANGED <<platform, paths, transformVars, contextVars, matchVars,
                 defaultVars, watcherVars>>

SpecLcp == InitLcp /\ [][CallLcp]_vars

\* the number of leading segments all the paths share
SharedSegments(ps) ==
  LET parts == [k \in 1..Len(ps) |-> getPathParts(ps[k])]
      shared == {n \in 0..Len(parts[1]) :
                   \A k \in 1..Len(ps) :
                     Len(parts[k]) >= n /\ SubSeq(parts[k], 1, n) = SubSeq(parts[1], 1, n)}
  IN SetMax(shared)

\* C2: for two or more paths the result is the longest leading segment
\* sequence shared by all the paths, joined by the path separator.
C2_SharedPrefix ==
  (pc = "done" /\ Len(paths) >= 2) =>
    lcpResult = Join(SubSeq(getPathParts(paths[1]), 1, SharedSegments(paths)),
                     PathSep(platform))

(***************************************************************************)
(* matchedSpecs on batches of absolute spec paths                          *)
(***************************************************************************)
MaxPieces == 4
MaxDepth == 2

NamePieces == {<<"a">>, <<".", "j", "s">>, <<".", "c", "y">>}
BaseNames == {Concat(ps) : ps \in SeqsBetween(NamePieces, 1, MaxPieces)}
Directories == SeqsBetween({<<"e">>}, 0, MaxDepth)

\* an absolute path of the platform: the native separator, or (win32 only,
\* as a glob library reports them) forward slashes after the drive
AbsolutePath(plat, sep, dirs, base) ==
  Join((IF plat = "win32" THEN << <<"C", ":">> >> ELSE << <<>> >>) \o dirs \o <<base>>, sep)

SeparatorsOf(plat) == IF plat = "win32" THEN {Backslash, Slash} ELSE {Slash}

SiblingNames == {<<"b", ".", "j", "s">>}

InitTransform ==
  /\ pc = "start"
  /\ platform \in Platforms
  /\ testingType \in {"e2e", "component"}
  /\ \E sep \in SeparatorsOf(platform), d1 \in Directories, b1 \in BaseNames :
       \/ specAbsolutePaths = <<AbsolutePath(platform, sep, d1, b1)>>
       \/ \E d2 \in Directories, b2 \in SiblingNames :
            specAbsolutePaths = <<AbsolutePath(platform, sep, d1, b1),
                                  AbsolutePath(platform, sep, d2, b2)>>
  /\ descriptors = <<>>
  /\ IdleLcp /\ IdleContext /\ IdleMatch /\ IdleDefault /\ IdleWatcher

CallMatchedSpecs ==
  /\ pc = "start"
  /\ descriptors' = matchedSpecs(specAbsolutePaths, testingType, platform)
  /\ pc' = "done"
  /\ UNCHANGED <<platform, specAbsolutePaths, testingType, lcpVars, contextVars,
                 matchVars, defaultVars, watcherVars>>

SpecTransform == InitTransform /\ [][CallMatchedSpecs]_vars

\* C3: in every descriptor, baseName is fileName followed by specFileExtension.
C3_BaseNameRoundTrip ==
  pc = "done" =>
    \A k \in 1..Len(descriptors) :
      descriptors[k].baseName = descriptors[k].fileName \o descriptors[k].specFileExtension

\* the segments of the forward-slash form of a path
PosixSegments(p) == Split(p, {Slash, Backslash})

\* the number of leading directory segments shared by the whole batch: all
\* but the last segment of a single path, the shared leading segments of
\* two or more
CommonRootSegments(ps) ==
  IF Len(ps) = 1 THEN Len(PosixSegments(ps[1])) - 1
  ELSE LET shared == {n \in 0..(Len(PosixSegments(ps[1])) - 1) :
                        \A k \in 1..Len(ps) :
                          /\ Len(PosixSegments(ps[k])) > n
                          /\ SubSeq(PosixSegments(ps[k]), 1, n)
                               = SubSeq(PosixSegments(ps[1]), 1, n)}
       IN SetMax(shared)

\* C8: on every platform, relativeToCommonRoot is the descriptor's absolute
\* path without the batch's common root and without a leading separator.
C8_RelativeToCommonRoot ==
  pc = "done" =>
    \A k \in 1..Len(descriptors) :
      LET segs == PosixSegments(descriptors[k].absolute)
          n == CommonRootSegments(specAbsolutePaths)
      IN descriptors[k].relativeToCommonRoot
           = StripLeadingSlash(Join(SubSeq(segs, n + 1, Len(segs)), Slash))

(***************************************************************************)
(* minimatch(file, pattern, { dot: true, matchBase: true }) for patterns   *)
(* made of literal characters, "*", "**" segments and "/"                  *)
(***************************************************************************)
Star == "*"

\* one path segment against one pattern segment: "*" stands for any run of
\* characters (a segment holds no "/"); with dot: true a leading dot is an
\* ordinary character
RECURSIVE SegmentMatch(_, _)
SegmentMatch(seg, pat) ==
  IF Len(pat) = 0 THEN Len(seg) = 0
  ELSE IF pat[1] = Star
       THEN \/ SegmentMatch(seg, Tail(pat))
            \/ Len(seg) > 0 /\ SegmentMatch(Tail(seg), pat)
       ELSE Len(seg) > 0 /\ seg[1] = pat[1] /\ SegmentMatch(Tail(seg), Tail(pat))

GlobStar == <<Star, Star>>

\* matchOne: the file's segments against the pattern's, "**" standing for
\* any number of segments
RECURSIVE MatchOne(_, _)
MatchOne(file, pattern) ==
  IF Len(pattern) = 0 THEN Len(file) = 0
  ELSE IF pattern[1] = GlobStar
       THEN \/ MatchOne(file, Tail(pattern))
            \/ Len(file) > 0 /\ MatchOne(Tail(file), pattern)
       ELSE /\ Len(file) > 0
            /\ Len(file[1]) > 0
            /\ SegmentMatch(file[1], pattern[1])
            /\ MatchOne(Tail(file), Tail(pattern))

\* matchBase: a pattern without a slash is matched against the base name
minimatch(file, pattern) ==
  LET f == Split(file, {Slash})
      pat == Split(pattern, {Slash})
  IN IF Len(pat) = 1 THEN MatchOne(<<f[Len(f)]>>, pat) ELSE MatchOne(f, pat)

(***************************************************************************)
(* specPatterns and matchesSpecPattern                                     *)
(***************************************************************************)
\* a configuration value: undefined, a string or an array of strings
Undefined == [kind |-> "undefined"]
StringValue(v) == [kind |-> "string", val |-> v]
ArrayValue(v) == [kind |-> "array", val |-> v]

\* toArray: val ? typeof val === 'string' ? [val] : val : undefined
\* (the empty string is falsy, the empty array is not)
toArray(val) ==
  IF val.kind = "undefined" THEN Undefined
  ELSE IF val.kind = "string"
       THEN (IF val.val = <<>> THEN Undefined ELSE ArrayValue(<<val.val>>))
       ELSE val

specPatterns(cfg) ==
  [specPattern |-> toArray(cfg.specPattern),
   excludeSpecPattern |-> toArray(cfg.excludeSpecPattern)]

\* const { specPattern = [], excludeSpecPattern = [] } = ...
OrEmpty(val) == IF val.kind = "undefined" THEN <<>> ELSE val.val

\* for (const pattern of patterns) if (minimatch(specFile, pattern, ...)) ...
RECURSIVE AnyMatch(_, _)
AnyMatch(file, patterns) ==
  IF Len(patterns) = 0 THEN FALSE
  ELSE IF minimatch(file, patterns[1]) THEN TRUE
  ELSE AnyMatch(file, Tail(patterns))

\* a variant that looks at the include patterns before the exclude patterns
matchesSpecPatternIncludeFirst(file, project, tt, cfg) ==
  IF project = Null \/ tt = Null THEN FALSE
  ELSE LET pats == specPatterns(cfg)
       IN IF AnyMatch(file, OrEmpty(pats.specPattern)) THEN TRUE
          ELSE FALSE

matchesSpecPattern(file, project, tt, cfg) ==
  IF project = Null \/ tt = Null THEN FALSE
  ELSE LET pats == specPatterns(cfg)
       IN IF AnyMatch(file, OrEmpty(pats.excludeSpecPattern)) THEN FALSE
          ELSE IF AnyMatch(file, OrEmpty(pats.specPattern)) THEN TRUE
          ELSE FALSE

MaxPatterns == 2

Projects == {Null, "project"}
TestingTypes == {Null, "e2e", "component"}

MatchFiles ==
  { <<"a", ".", "c", "y">>,
    <<"e", "/", "a", ".", "c", "y">>,
    <<"e", "/", "b">>,
    <<"x", "/", "e", "/", "a", ".", "c", "y">>,
    <<"x", "/", ".", "b">> }

MatchPatterns ==
  { <<"*", ".", "c", "y">>,
    <<"*", "*", "/", "*", ".", "c", "y">>,
    <<"e", "/", "*">> }

ConfigValues ==
  {Undefined, StringValue(<<>>)}
    \cup {StringValue(p) : p \in MatchPatterns}
    \cup {ArrayValue(ps) : ps \in SeqsBetween(MatchPatterns, 0, MaxPatterns)}

InitMatch ==
  /\ pc = "start"
  /\ platform = "posix"
  /\ currentProject \in Projects
  /\ currentTestingType \in TestingTypes
  /\ config \in [specPattern : ConfigValues, excludeSpecPattern : ConfigValues]
  /\ specFile \in MatchFiles
  /\ matchResult = FALSE
  /\ IdleLcp /\ IdleTransform /\ IdleDefault /\ IdleWatcher

CallMatchesSpecPattern ==
  /\ pc = "start"
  /\ matchResult' = matchesSpecPattern(specFile, currentProject, currentTestingType, config)
  /\ pc' = "done"
  /\ UNCHANGED <<platform, contextVars, specFile, lcpVars, transformVars,
                 defaultVars, watcherVars>>

SpecMatch == InitMatch /\ [][CallMatchesSpecPattern]_vars

\* the patterns a configuration value lists, in no order
PatternSet(val) ==
  IF val.kind = "undefined" THEN {}
  ELSE IF val.kind = "string" THEN (IF val.val = <<>> THEN {} ELSE {val.val})
  ELSE {val.val[k] : k \in 1..Len(val.val)}

Excluded == \E p \in PatternSet(config.excludeSpecPattern) : minimatch(specFile, p)
Included == \E p \in PatternSet(config.specPattern) : minimatch(specFile, p)

\* C1: matchesSpecPattern is true exactly when a project and a testing type
\* are set, no exclude pattern matches and some include pattern matches.
C1_ExclusionWins ==
  pc = "done" =>
    (matchResult <=> (/\ currentProject # Null
                      /\ currentTestingType # Null
                      /\ ~Excluded
                      /\ Included))

\* a file both an include and an exclude pattern match, answered
C1_Witness ==
  /\ pc = "done"
  /\ currentProject # Null /\ currentTestingType # Null
  /\ Excluded /\ Included
  /\ ~matchResult

(***************************************************************************)
(* defaultSpecFileName                                                     *)
(***************************************************************************)
\* @packages/config defaultSpecPattern
defaultSpecPattern(tt) ==
  IF tt = "e2e"
  THEN <<"c", "y", "p", "r", "e", "s", "s", "/", "e", "2", "e", "/", "*", "*", "/", "*", ".", "c", "y", ".", "{", "j", "s", ",", "j", "s", "x", ",", "t", "s", ",", "t", "s", "x", "}">>
  ELSE IF tt = "component"
  THEN <<"*", "*", "/", "*", ".", "c", "y", ".", "{", "j", "s", ",", "j", "s", "x", ",", "t", "s", ",", "t", "s", "x", "}">>
  ELSE <<>>

\* String(value) inside a template literal
TemplateString(v) ==
  IF v = "e2e" THEN <<"e", "2", "e">>
  ELSE IF v = "component" THEN <<"c", "o", "m", "p", "o", "n", "e", "n", "t">>
  ELSE IF v = "js" THEN <<"j", "s">>
  ELSE IF v = "ts" THEN <<"t", "s">>
  ELSE <<"n", "u", "l", "l">>

\* `cypress/${currentTestingType}/filename.cy.${fileExtensionToUse}/`
DefaultFilename(tt, ext) ==
  <<"c", "y", "p", "r", "e", "s", "s", "/">> \o TemplateString(tt)
    \o <<"/", "f", "i", "l", "e", "n", "a", "m", "e", ".", "c", "y", ".">> \o TemplateString(ext)
    \o <<"/">>

\* a FoundSpec, of which defaultSpecFileName reads the relative path only
FoundSpec(relative) == [relative |-> relative]

Returned(value) == [kind |-> "returned", isNull |-> FALSE, value |-> value, caught |-> FALSE]
ReturnedNull == [kind |-> "returned", isNull |-> TRUE, value |-> <<>>, caught |-> FALSE]

\* a catch block that lets the error go on to the caller
OnCatchRethrow(defaultFilename) ==
  [kind |-> "threw", isNull |-> FALSE, value |-> <<>>, caught |-> TRUE]

\* catch (err) { debug(...); return defaultFilename }
OnCatch(defaultFilename) ==
  [kind |-> "returned", isNull |-> FALSE, value |-> defaultFilename, caught |-> TRUE]

\* the code after `await this.ctx.project.specPatterns()`, inside the try;
\* fails names the step that throws when it is reached
AfterSpecPatterns(tt, ext, cfg, specs, fails, example, plat, defaultFilename) ==
  LET specPattern == specPatterns(cfg).specPattern
      specPatternSet == IF specPattern.kind = "array" /\ Len(specPattern.val) > 0
                        THEN specPattern.val[1] ELSE <<>>
      filenameFromSpecs ==
        getLongestCommonPrefixFromPaths([k \in 1..Len(specs) |-> specs[k].relative], plat)
  IN IF specPatternSet = <<>> THEN Returned(defaultFilename)
     ELSE IF specPatternSet = defaultSpecPattern(tt) THEN Returned(defaultFilename)
     ELSE IF fails = "lcp" THEN OnCatch(defaultFilename)
     ELSE IF filenameFromSpecs # <<>> THEN Returned(filenameFromSpecs)
     ELSE IF fails = "glob" THEN OnCatch(defaultFilename)
     ELSE IF example.kind = "string" /\ example.val # <<>> THEN Returned(example.val)
     ELSE Returned(defaultFilename)

FailingSteps == {"none", "specPatterns", "lcp", "glob"}
FileExtensions == {"js", "ts"}
MaxKnownSpecs == 2

CustomPattern == <<"s", "r", "c", "/", "*", ".", "c", "y", ".", "j", "s">>
DefaultConfigValues ==
  { Undefined, StringValue(<<>>), ArrayValue(<<>>),
    StringValue(CustomPattern),
    StringValue(defaultSpecPattern("e2e")),
    StringValue(defaultSpecPattern("component")),
    ArrayValue(<<CustomPattern, defaultSpecPattern("e2e")>>),
    ArrayValue(<<defaultSpecPattern("e2e"), CustomPattern>>),
    ArrayValue(<<defaultSpecPattern("component")>>) }

KnownSpecPaths == { <<"s", "r", "c", "/", "a", ".", "c", "y", ".", "j", "s">>, <<"s", "r", "c", "/", "b", ".", "c", "y", ".", "j", "s">>, <<"l", "i", "b", "/", "a", ".", "c", "y", ".", "j", "s">> }

GlobExamples == { Undefined, StringValue(<<"s", "r", "c", "/", "f", "i", "l", "e", "n", "a", "m", "e", ".", "c", "y", ".", "j", "s">>) }

InitDefault ==
  /\ pc = "start"
  /\ platform = "posix"
  /\ currentProject \in Projects
  /\ currentTestingType \in TestingTypes
  /\ config \in [specPattern : DefaultConfigValues, excludeSpecPattern : {Undefined}]
  /\ fileExtensionToUse \in FileExtensions
  /\ failing \in FailingSteps
  /\ globExample \in GlobExamples
  /\ defaultResult = [kind |-> "pending"]
  /\ \E rs \in SeqsBetween(KnownSpecPaths, 0, MaxKnownSpecs) :
       _specs = [k \in 1..Len(rs) |-> FoundSpec(rs[k])]
  /\ IdleWatcherButSpecs
  /\ IdleLcp /\ IdleTransform /\ IdleMatch

restOfDefault == <<platform, contextVars, fileExtensionToUse, failing, globExample,
                   lcpVars, transformVars, matchVars, watcherVars>>

\* up to the await: null without a project or a testing type
DefaultSpecFileNameCall ==
  /\ pc = "start"
  /\ IF currentProject = Null \/ currentTestingType = Null
     THEN /\ defaultResult' = ReturnedNull
          /\ pc' = "done"
     ELSE /\ defaultResult' = defaultResult
          /\ pc' = "awaitSpecPatterns"
  /\ UNCHANGED restOfDefault

\* the await settles: rejected (caught), or resolved and the rest runs
DefaultSpecFileNameResume ==
  /\ pc = "awaitSpecPatterns"
  /\ LET defaultFilename == DefaultFilename(currentTestingType, fileExtensionToUse)
     IN defaultResult' =
          IF failing = "specPatterns" THEN OnCatch(defaultFilename)
          ELSE AfterSpecPatterns(currentTestingType, fileExtensionToUse, config, _specs,
                                 failing, globExample, platform, defaultFilename)
  /\ pc' = "done"
  /\ UNCHANGED restOfDefault

NextDefault == DefaultSpecFileNameCall \/ DefaultSpecFileNameResume

SpecDefault == InitDefault /\ [][NextDefault]_vars

\* cypress/<testingType>/filename.cy.<ext>
TemplatePath(tt, ext) ==
  <<"c", "y", "p", "r", "e", "s", "s", "/">> \o TemplateString(tt)
    \o <<"/", "f", "i", "l", "e", "n", "a", "m", "e", ".", "c", "y", ".">> \o TemplateString(ext)

NoPatternOrDefault ==
  LET sp == specPatterns(config).specPattern
  IN \/ sp.kind = "undefined"
     \/ sp.val = <<>>
     \/ sp.val[1] = defaultSpecPattern(currentTestingType)

\* C4: with a project and a testing type set, and no spec pattern or the
\* built-in default pattern first, the result is exactly
\* cypress/<testingType>/filename.cy.<ext>.
C4_TemplatePath ==
  (/\ pc = "done"
   /\ currentProject # Null /\ currentTestingType # Null
   /\ NoPatternOrDefault) =>
     /\ defaultResult.kind = "returned"
     /\ ~defaultResult.isNull
     /\ defaultResult.value = TemplatePath(currentTestingType, fileExtensionToUse)

\* C5: defaultSpecFileName never throws, and whenever one of its steps
\* threw, its result is defaultFilename.
C5_NeverThrows ==
  pc = "done" =>
    /\ defaultResult.kind = "returned"
    /\ defaultResult.caught =>
         defaultResult.value = DefaultFilename(currentTestingType, fileExtensionToUse)

\* the last step, the example from the glob, threw and the call returned
C5_Witness ==
  /\ pc = "done"
  /\ failing = "glob"
  /\ defaultResult.caught
  /\ defaultResult.kind = "returned"

(***************************************************************************)
(* The spec watcher: startSpecWatcher, stopSpecWatcher, destroy, the       *)
(* debounced onProjectFileSystemChange and its discovery pass              *)
(***************************************************************************)
\* debounce(..., 250)
DebounceWait == 250
\* the clock advances by half the debounce delay
TickMs == DebounceWait \div 2

MaxWatchers == 2
MaxInflight == 1

NoTime == -1
WatchPatterns == {<<"s", "r", "c">>, <<"l", "i", "b">>}

Watchers == 1..Len(watchers)

\* what chokidar.watch returns, with what has happened to it since:
\* close() calls, the promise the first close() returned, whether a
\* rejection handler is attached to it, and how many watchers were still
\* open when this one was created
NewWatcher(pattern, ws) ==
  [pattern |-> pattern, closeCalls |-> 0, closePromise |-> "none",
   catchAttached |-> FALSE,
   openAtCreate |-> Cardinality({w \in 1..Len(ws) : ws[w].closeCalls = 0})]

\* lodash debounce(func, wait) with the default options (trailing edge).
\* Times are kept relative to Date.now(): sinceLastCall is
\* Date.now() - lastCallTime, which the code only compares with wait and so
\* stops counting there (NoTime before the first call); timerIn is the time
\* until the pending timer runs (NoTime when timerId is undefined).
\* Of what has happened: owed, the bursts of calls begun less the
\* invocations made; burstEvents, the calls of the burst in progress (2 for
\* two or more); restarted, whether the timer was restarted in that burst;
\* lastPass, for the last invocation, the time since the last call, the
\* calls of its burst and whether the timer was restarted in it.
NewDebounced ==
  [sinceLastCall |-> NoTime, timerIn |-> NoTime, owed |-> 0, burstEvents |-> 0,
   restarted |-> FALSE,
   lastPass |-> [sinceLastCall |-> NoTime, events |-> 0, restarted |-> FALSE]]

\* a call of the debounced function: lastCallTime = time, and the timer is
\* started when none is pending
debouncedCall(d) ==
  LET newBurst == d.sinceLastCall = NoTime \/ d.sinceLastCall >= DebounceWait
  IN [d EXCEPT !.sinceLastCall = 0,
               !.timerIn = (IF d.timerIn = NoTime THEN DebounceWait ELSE d.timerIn),
               !.owed = (IF newBurst THEN @ + 1 ELSE @),
               !.burstEvents = (IF newBurst THEN 1 ELSE IF @ < 2 THEN @ + 1 ELSE @),
               !.restarted = (IF newBurst THEN FALSE ELSE @)]

\* a timer callback that invokes whenever it runs, whatever was called since
timerExpiredNoRestart(d) ==
  [d EXCEPT !.timerIn = NoTime,
            !.owed = @ - 1,
            !.burstEvents = 0,
            !.restarted = FALSE,
            !.lastPass = [sinceLastCall |-> d.sinceLastCall, events |-> d.burstEvents,
                          restarted |-> d.restarted]]

\* timerExpired: invoke on the trailing edge when the wait has passed since
\* the last call, otherwise restart the timer for the remaining wait
timerExpired(d) ==
  IF d.sinceLastCall >= DebounceWait
  THEN [d EXCEPT !.timerIn = NoTime,
                 !.owed = @ - 1,
                 !.burstEvents = 0,
                 !.restarted = FALSE,
                 !.lastPass = [sinceLastCall |-> d.sinceLastCall,
                               events |-> d.burstEvents, restarted |-> d.restarted]]
  ELSE [d EXCEPT !.timerIn = DebounceWait - d.sinceLastCall, !.restarted = TRUE]

\* whether timerExpired invokes the debounced function
Invokes(d, dAfter) == dAfter.owed < d.owed

\* the clock advances by ms
elapse(d, ms) ==
  [d EXCEPT !.sinceLastCall = (IF @ = NoTime THEN NoTime
                               ELSE IF @ + ms >= DebounceWait THEN DebounceWait
                               ELSE @ + ms),
            !.timerIn = (IF @ = NoTime THEN NoTime ELSE @ - ms)]

\* a stop that keeps the handle after closing
stopSpecWatcherKeepsHandle(held, ws) ==
  IF held = NoWatcher THEN [held |-> held, watchers |-> ws, closeRequested |-> FALSE]
  ELSE [held |-> held,
        watchers |-> [ws EXCEPT ![held].closeCalls = @ + 1,
                                ![held].closePromise = (IF @ = "none" THEN "pending" ELSE @),
                                ![held].catchAttached = TRUE],
        closeRequested |-> TRUE]

\* stopSpecWatcher: nothing without a watcher; otherwise
\* this._specWatcher.close().catch(() => {}) and this._specWatcher = null
stopSpecWatcher(held, ws) ==
  IF held = NoWatcher THEN [held |-> held, watchers |-> ws, closeRequested |-> FALSE]
  ELSE [held |-> NoWatcher,
        watchers |-> [ws EXCEPT ![held].closeCalls = @ + 1,
                                ![held].closePromise = (IF @ = "none" THEN "pending" ELSE @),
                                ![held].catchAttached = TRUE],
        closeRequested |-> TRUE]

\* getFilesByGlob, then matchedSpecs: the specs under the watcher's pattern
\* in the present state of the filesystem
findSpecs(pattern, fs) ==
  IF fs = 0 THEN <<FoundSpec(pattern \o <<"/", "a", ".", "c", "y", ".", "j", "s">>)>>
  ELSE <<FoundSpec(pattern \o <<"/", "a", ".", "c", "y", ".", "j", "s">>), FoundSpec(pattern \o <<"/", "b", ".", "c", "y", ".", "j", "s">>)>>

InitWatcher ==
  /\ pc = "idle"
  /\ platform = "posix"
  /\ currentProject \in Projects
  /\ currentTestingType = "e2e"
  /\ config = [specPattern |-> Undefined, excludeSpecPattern |-> Undefined]
  /\ IdleWatcher
  /\ IdleLcp /\ IdleTransform /\ IdleMatch /\ IdleDefault

restOfWatcher == <<pc, platform, currentTestingType, config, lcpVars, transformVars,
                   matchVars, defaultVars>>

\* the project is opened or closed
SetCurrentProject(p) ==
  /\ currentProject # p
  /\ currentProject' = p
  /\ UNCHANGED <<restOfWatcher, watcherVars>>

StopsInRow == IF lastCall.stopsInRow < 2 THEN lastCall.stopsInRow + 1 ELSE 2

StopCall(name) ==
  LET r == stopSpecWatcher(_specWatcher, watchers)
  IN /\ _specWatcher' = r.held
     /\ watchers' = r.watchers
     /\ lastCall' = [name |-> name, threw |-> FALSE,
                     hadWatcher |-> _specWatcher # NoWatcher,
                     closeRequested |-> r.closeRequested, stopsInRow |-> StopsInRow]
     /\ UNCHANGED <<restOfWatcher, currentProject, _specs, debounced, inflight,
                    fsVersion, unhandledRejection, lastUpdate>>

StopSpecWatcher == StopCall("stopSpecWatcher")

Destroy == StopCall("destroy")

\* a start that does not stop the watcher it replaces
StartWithoutStop(pattern) ==
  /\ UNCHANGED <<restOfWatcher, currentProject, _specs, fsVersion,
                 unhandledRejection, lastUpdate>>
  /\ IF currentProject = Null
     THEN /\ lastCall' = [name |-> "startSpecWatcher", threw |-> TRUE,
                          hadWatcher |-> FALSE,
                          closeRequested |-> FALSE, stopsInRow |-> 0]
          /\ UNCHANGED <<_specWatcher, watchers, debounced, inflight>>
     ELSE /\ Len(watchers) < MaxWatchers
          /\ watchers' = Append(watchers, NewWatcher(pattern, watchers))
          /\ debounced' = Append(debounced, NewDebounced)
          /\ inflight' = Append(inflight, 0)
          /\ _specWatcher' = Len(watchers) + 1
          /\ lastCall' = [name |-> "startSpecWatcher", threw |-> FALSE,
                          hadWatcher |-> FALSE,
                          closeRequested |-> FALSE, stopsInRow |-> 0]

\* startSpecWatcher: stop the watcher held; throw without a current project;
\* otherwise debounce the callback, create the watcher and subscribe
StartSpecWatcher(pattern) ==
  LET r == stopSpecWatcher(_specWatcher, watchers)
  IN /\ UNCHANGED <<restOfWatcher, currentProject, _specs, fsVersion,
                    unhandledRejection, lastUpdate>>
     /\ IF currentProject = Null
        THEN /\ _specWatcher' = r.held
             /\ watchers' = r.watchers
             /\ lastCall' = [name |-> "startSpecWatcher", threw |-> TRUE,
                             hadWatcher |-> FALSE,
                             closeRequested |-> FALSE, stopsInRow |-> 0]
             /\ UNCHANGED <<debounced, inflight>>
        ELSE /\ Len(watchers) < MaxWatchers
             /\ watchers' = Append(r.watchers, NewWatcher(pattern, r.watchers))
             /\ debounced' = Append(debounced, NewDebounced)
             /\ inflight' = Append(inflight, 0)
          /\ inflight' = Append(inflight, 0)
             /\ _specWatcher' = Len(watchers) + 1
             /\ lastCall' = [name |-> "startSpecWatcher", threw |-> FALSE,
                             hadWatcher |-> FALSE,
                             closeRequested |-> FALSE, stopsInRow |-> 0]

\* the promise close() returned settles; a rejection with no handler
\* attached is an unhandled rejection
CloseSettles(w, outcome) ==
  /\ watchers[w].closePromise = "pending"
  /\ watchers' = [watchers EXCEPT ![w].closePromise = outcome]
  /\ unhandledRejection' =
       (unhandledRejection \/ (outcome = "rejected" /\ ~watchers[w].catchAttached))
  /\ UNCHANGED <<restOfWatcher, currentProject, _specs, _specWatcher, debounced,
                 inflight, fsVersion, lastCall, lastUpdate>>

\* a timer that is due runs before the clock advances and before the next
\* filesystem event is delivered
TimerDue == \E w \in Watchers : debounced[w].timerIn # NoTime /\ debounced[w].timerIn <= 0

\* the project's filesystem changes; a watcher on which close() was not
\* called emits 'all', which calls the debounced onProjectFileSystemChange
FsChange ==
  /\ ~TimerDue
  /\ fsVersion' = 1 - fsVersion
  /\ debounced' = [w \in Watchers |->
                     IF watchers[w].closeCalls = 0 THEN debouncedCall(debounced[w])
                     ELSE debounced[w]]
  /\ UNCHANGED <<restOfWatcher, currentProject, _specs, _specWatcher, watchers,
                 inflight, lastCall, unhandledRejection, lastUpdate>>

\* the debounce timer of watcher w runs; when it invokes the callback,
\* findSpecs is called and awaited
TimerExpired(w) ==
  /\ debounced[w].timerIn # NoTime
  /\ debounced[w].timerIn <= 0
  /\ LET d == timerExpired(debounced[w])
         invokes == Invokes(debounced[w], d)
     IN /\ invokes => inflight[w] < MaxInflight
        /\ debounced' = [debounced EXCEPT ![w] = d]
        /\ inflight' = [inflight EXCEPT ![w] = IF invokes THEN @ + 1 ELSE @]
  /\ UNCHANGED <<restOfWatcher, currentProject, _specs, _specWatcher, watchers,
                 fsVersion, lastCall, unhandledRejection, lastUpdate>>

\* findSpecs resolves and the callback goes on: refreshSpecs when the specs
\* found equal the last-known list, setSpecs (which replaces it) otherwise
FindSpecsResolves(w) ==
  /\ inflight[w] > 0
  /\ inflight' = [inflight EXCEPT ![w] = @ - 1]
  /\ LET specs == findSpecs(watchers[w].pattern, fsVersion)
         stale == watchers[w].closeCalls > 0
     IN IF _specs = specs
        THEN /\ lastUpdate' = [kind |-> "refreshSpecs", stale |-> stale]
             /\ UNCHANGED _specs
        ELSE /\ lastUpdate' = [kind |-> "setSpecs", stale |-> stale]
             /\ _specs' = specs
  /\ UNCHANGED <<restOfWatcher, currentProject, _specWatcher, watchers, debounced,
                 fsVersion, lastCall, unhandledRejection>>

\* the clock advances
Tick ==
  /\ ~TimerDue
  /\ debounced' = [w \in Watchers |-> elapse(debounced[w], TickMs)]
  /\ UNCHANGED <<restOfWatcher, currentProject, _specs, _specWatcher, watchers,
                 inflight, fsVersion, lastCall, unhandledRejection, lastUpdate>>

Next ==
  \/ \E p \in Projects : SetCurrentProject(p)
  \/ \E pattern \in WatchPatterns : StartSpecWatcher(pattern)
  \/ StopSpecWatcher
  \/ Destroy
  \/ \E w \in Watchers, outcome \in {"resolved", "rejected"} : CloseSettles(w, outcome)
  \/ FsChange
  \/ \E w \in Watchers : TimerExpired(w)
  \/ \E w \in Watchers : FindSpecsResolves(w)
  \/ Tick

Spec == InitWatcher /\ [][Next]_vars

(***************************************************************************)
(* The watcher's lifecycle alone. The steps left out (FsChange, Tick,      *)
(* TimerExpired, FindSpecsResolves) change none of _specWatcher, watchers, *)
(* lastCall and unhandledRejection.                                        *)
(***************************************************************************)
NextLifecycle ==
  \/ \E p \in Projects : SetCurrentProject(p)
  \/ \E pattern \in WatchPatterns : StartSpecWatcher(pattern)
  \/ StopSpecWatcher
  \/ Destroy
  \/ \E w \in Watchers, outcome \in {"resolved", "rejected"} : CloseSettles(w, outcome)

SpecLifecycle == InitWatcher /\ [][NextLifecycle]_vars

(***************************************************************************)
(* Discovery alone, in an open project. The steps left out change none of  *)
(* debounced, inflight, _specs and lastUpdate: SetCurrentProject only      *)
(* makes a start throw after its stop, Destroy is stopSpecWatcher, and     *)
(* CloseSettles settles a promise nothing here reads.                      *)
(***************************************************************************)
InitDiscovery == InitWatcher /\ currentProject = "project"

NextDiscovery ==
  \/ \E pattern \in WatchPatterns : StartSpecWatcher(pattern)
  \/ StopSpecWatcher
  \/ FsChange
  \/ \E w \in Watchers : TimerExpired(w)
  \/ \E w \in Watchers : FindSpecsResolves(w)
  \/ Tick

SpecDiscovery == InitDiscovery /\ [][NextDiscovery]_vars

\* C6: stopSpecWatcher (also as destroy) never raises, requests close() at
\* most once per watcher and only when a watcher was held, does nothing
\* when called again, leaves no handle, and no close() rejection goes
\* unhandled.
C6_StopIdempotent ==
  /\ \A w \in Watchers : watchers[w].closeCalls <= 1
  /\ ~unhandledRejection
  /\ lastCall.name \in {"stopSpecWatcher", "destroy"} =>
       /\ ~lastCall.threw
       /\ _specWatcher = NoWatcher
       /\ lastCall.closeRequested <=> lastCall.hadWatcher
       /\ lastCall.stopsInRow = 2 => ~lastCall.closeRequested

\* stopSpecWatcher called twice in a row, after a watcher whose close()
\* was requested and then failed
C6_Witness ==
  /\ lastCall.name = "stopSpecWatcher"
  /\ lastCall.stopsInRow = 2
  /\ \E w \in Watchers : watchers[w].closeCalls = 1 /\ watchers[w].closePromise = "rejected"

\* C10: the watchers on which close() was not requested are at most one,
\* the one held in _specWatcher, and no watcher was created while another
\* was still open.
C10_SingleOpenWatcher ==
  LET open == {w \in Watchers : watchers[w].closeCalls = 0}
  IN /\ Cardinality(open) <= 1
     /\ open = (IF _specWatcher = NoWatcher THEN {} ELSE {_specWatcher})
     /\ \A w \in Watchers : watchers[w].openAtCreate = 0

\* a watcher replaced by a second one, and then a start that threw
C10_Witness ==
  /\ Len(watchers) >= 2
  /\ lastCall.name = "startSpecWatcher"
  /\ lastCall.threw

\* C7: each burst of filesystem events starts exactly one discovery pass:
\* a pass is owed exactly while the burst's timer is pending, never more
\* than one, and a pass starts only once the debounce delay has passed
\* since the burst's last event.
C7_Debounce ==
  \A w \in Watchers :
    LET d == debounced[w]
    IN /\ d.owed \in {0, 1}
       /\ d.owed = 1 <=> d.timerIn # NoTime
       /\ d.timerIn # NoTime => d.timerIn >= 0
       /\ d.lastPass.sinceLastCall # NoTime => d.lastPass.sinceLastCall >= DebounceWait

\* a burst of two or more events at different times (the timer was
\* restarted), and the one pass it started
C7_Witness ==
  \E w \in Watchers :
    /\ debounced[w].lastPass.events = 2
    /\ debounced[w].lastPass.restarted
    /\ debounced[w].owed = 0
    /\ debounced[w].timerIn = NoTime

\* C9: no setSpecs or refreshSpecs call is made by the discovery pass of a
\* watcher that was stopped.
C9_NoStaleUpdate == ~lastUpdate.stale

====
